---- MODULE Spec2Model ----
(***************************************************************************)
(* Model of bin/categorizer.py: one run of the script over a small POSIX   *)
(* file system, optionally interleaved with an external actor that adds or *)
(* removes files directly under the target directory.                      *)
(*                                                                         *)
(* A string is a sequence of atoms ("characters"): "/" is the path         *)
(* separator, "." the dot, "%Y" and "%m" the strftime directives, every    *)
(* other atom an ordinary piece of text.  A canonical path is a sequence   *)
(* of path components, <<>> being the file-system root.                    *)
(***************************************************************************)
EXTENDS Integers, Sequences, FiniteSets, TLC

(* ---------------------------- bounds ----------------------------------- *)

\* Most direct children the target directory starts with.
MaxEntries == 2

\* Most steps the external actor takes during one run.
MaxExternal == 1

(* ---------------------------- strings ---------------------------------- *)

SEP == "/"
DOT == "."

RECURSIVE Concat(_)
Concat(ss) == IF ss = <<>> THEN <<>> ELSE Head(ss) \o Concat(Tail(ss))

\* str.startswith for a one-atom prefix
StartsWith(s, a) == Len(s) > 0 /\ s[1] = a

\* the path components of a string: the pieces between separators
RECURSIVE SplitFrom(_, _)
SplitFrom(s, cur) ==
    IF s = <<>> THEN <<cur>>
    ELSE IF Head(s) = SEP THEN <<cur>> \o SplitFrom(Tail(s), <<>>)
    ELSE SplitFrom(Tail(s), Append(cur, Head(s)))

Split(s) == SplitFrom(s, <<>>)

\* os.path.join(a, b) of posixpath
Join2(a, b) ==
    IF StartsWith(b, SEP) THEN b
    ELSE IF a = <<>> \/ a[Len(a)] = SEP THEN a \o b
    ELSE a \o <<SEP>> \o b

RECURSIVE PathJoin(_)
PathJoin(parts) ==
    IF Len(parts) = 1 THEN parts[1]
    ELSE PathJoin(<<Join2(parts[1], parts[2])>> \o SubSeq(parts, 3, Len(parts)))

(* ------------------------- names and times ----------------------------- *)

\* the names an entry of the target directory can have
Names == { <<"a">>, <<"b">>, <<"2024">>, <<DOT, "h">>, <<"desktop.ini">> }

\* last-modified times, in months since year 0: January and February 2024
Times == { 2024 * 12, 2024 * 12 + 1 }

\* the format patterns a caller passes as date_string
Patterns == { <<"%Y", "%m">>, <<"%Y">>, <<"%Y", SEP, "%m">>, <<DOT, DOT>>, <<DOT>> }

\* the command-line argument folder_path
PwdArg == <<SEP, "t">>

\* the canonical path of the target directory
Target == << <<"t">> >>

(* --------------------------- file system ------------------------------- *)

FileNode(t) == [kind |-> "file", mtime |-> t]
DirNode == [kind |-> "dir", mtime |-> 0]

Exists(f, p) == p \in DOMAIN f
IsDir(f, p) == p = <<>> \/ (Exists(f, p) /\ f[p].kind = "dir")
IsFile(f, p) == p # <<>> /\ Exists(f, p) /\ f[p].kind = "file"

Parent(p) == IF p = <<>> THEN <<>> ELSE SubSeq(p, 1, Len(p) - 1)

\* Path resolution as the kernel does it: walk the components from the
\* root; every component but the last must lead through a directory.
\* The result is the canonical path, or ok = FALSE when the walk fails.
RECURSIVE Walk(_, _, _)
Walk(f, cur, comps) ==
    IF comps = <<>> THEN [ok |-> TRUE, path |-> cur]
    ELSE IF ~IsDir(f, cur) THEN [ok |-> FALSE, path |-> cur]
    ELSE LET c == Head(comps) IN
         IF c = <<>> \/ c = <<DOT>> THEN Walk(f, cur, Tail(comps))
         ELSE IF c = <<DOT, DOT>> THEN Walk(f, Parent(cur), Tail(comps))
         ELSE Walk(f, Append(cur, c), Tail(comps))

Resolve(f, s) == Walk(f, <<>>, Split(s))

\* os.path.exists / os.path.isfile / os.path.isdir on a path string
PathExists(f, s) == LET r == Resolve(f, s) IN r.ok /\ (r.path = <<>> \/ Exists(f, r.path))
PathIsFile(f, s) == LET r == Resolve(f, s) IN r.ok /\ IsFile(f, r.path)
PathIsDir(f, s) == LET r == Resolve(f, s) IN r.ok /\ IsDir(f, r.path)

\* the names of the direct children of directory p
Children(f, p) == { q[Len(q)] : q \in { r \in DOMAIN f : Len(r) = Len(p) + 1 /\ Parent(r) = p } }

(* ------------------------- system calls -------------------------------- *)

\* the file system with the (sub)tree at src moved to dst
MoveTree(f, src, dst) ==
    LET under(p) == Len(p) >= Len(src) /\ SubSeq(p, 1, Len(src)) = src
        moved(p) == dst \o SubSeq(p, Len(src) + 1, Len(p))
        kept == { p \in DOMAIN f : ~under(p) /\ p # dst }
        new == { moved(p) : p \in { q \in DOMAIN f : under(q) } }
    IN  [p \in kept \cup new |->
            IF p \in new
            THEN f[CHOOSE q \in DOMAIN f : under(q) /\ moved(q) = p]
            ELSE f[p]]

\* os.mkdir(s): the new file system, or a failure (FileExistsError,
\* FileNotFoundError, NotADirectoryError)
mkdir(f, s) ==
    LET r == Resolve(f, s) IN
    IF ~r.ok \/ r.path = <<>> \/ Exists(f, r.path)
    THEN [ok |-> FALSE, fs |-> f, path |-> r.path]
    ELSE [ok |-> TRUE, fs |-> (r.path :> DirNode) @@ f, path |-> r.path]

\* Does the platform replace an existing destination file?  POSIX rename
\* does; on Windows os.rename raises FileExistsError.
Platforms == { "posix", "windows" }

\* os.rename(a, b) on the given platform: fails when a is missing, when
\* the folder of b is missing or no directory, when a directory is to go
\* below itself, and when b is a directory or a is one and b exists
rename(f, a, b, platform) ==
    LET s == Resolve(f, a)
        d == Resolve(f, b)
        failed == [ok |-> FALSE, fs |-> f, path |-> d.path]
    IN  IF ~s.ok \/ ~Exists(f, s.path) THEN failed
        ELSE IF ~d.ok \/ d.path = <<>> THEN failed
        ELSE IF d.path = s.path THEN [ok |-> TRUE, fs |-> f, path |-> d.path]
        ELSE IF Len(d.path) > Len(s.path) /\ SubSeq(d.path, 1, Len(s.path)) = s.path
             THEN failed
        ELSE IF Exists(f, d.path) /\ (f[d.path].kind = "dir" \/ f[s.path].kind = "dir")
             THEN failed
        ELSE IF Exists(f, d.path) /\ platform = "windows" THEN failed
        ELSE [ok |-> TRUE, fs |-> MoveTree(f, s.path, d.path), path |-> d.path]

\* os.path.getmtime(s)
getmtime(f, s) ==
    LET r == Resolve(f, s) IN
    IF r.ok /\ Exists(f, r.path)
    THEN [ok |-> TRUE, value |-> f[r.path].mtime]
    ELSE [ok |-> FALSE, value |-> 0]

\* os.listdir(s) of a directory: the names of its entries
listdir(f, s) == Children(f, Resolve(f, s).path)

(* ------------------------- the program --------------------------------- *)

\* the names get_file_list excludes as system files
SystemFiles == { <<"desktop.ini">>, <<"thumbs.db">>, <<DOT, "DS_Store">> }

\* the checks without the os.path.isfile test
TargetCheck_NoFileTest(f, pwd) == IF ~PathExists(f, pwd) THEN "nofolder" ELSE "ok"

\* the two checks get_file_list makes before it lists
TargetCheck(f, pwd) ==
    IF ~PathExists(f, pwd) THEN "nofolder"
    ELSE IF PathIsFile(f, pwd) THEN "isfile"
    ELSE "ok"

\* the filter without the list of system files
Listed_NoSystemFiles(f, pwd, n) ==
    PathIsFile(f, PathJoin(<<pwd, n>>)) /\ ~StartsWith(n, DOT)

\* the filter of the list comprehension of get_file_list
Listed(f, pwd, n) ==
    /\ PathIsFile(f, PathJoin(<<pwd, n>>))
    /\ n \notin SystemFiles
    /\ ~StartsWith(n, DOT)

\* the set of names get_file_list returns
get_file_list(f, pwd) == { n \in listdir(f, pwd) : Listed(f, pwd, n) }

\* every order os.listdir may yield the names of S in
Orderings(S) ==
    { s \in [1..Cardinality(S) -> S] : \A i, j \in 1..Cardinality(S) : s[i] = s[j] => i = j }

\* datetime.fromtimestamp: the calendar fields of a time
Year(t) == t \div 12
Month(t) == (t % 12) + 1

Pad2(n) == IF n < 10 THEN <<"0", ToString(n)>> ELSE <<ToString(n)>>

\* what strftime writes for one atom of the pattern
Directive(a, t) ==
    IF a = "%Y" THEN <<ToString(Year(t))>>
    ELSE IF a = "%m" THEN Pad2(Month(t))
    ELSE <<a>>

strftime(t, fmt) == Concat([i \in 1..Len(fmt) |-> Directive(fmt[i], t)])

get_file_time_str(f, pwd, file_name, fmt) ==
    LET m == getmtime(f, PathJoin(<<pwd, file_name>>)) IN
    [ok |-> m.ok, value |-> strftime(m.value, fmt)]

\* A Grouping is a Python dict: a sequence of [key, files] records in
\* insertion order, keys unique.
HasKey(g, k) == \E i \in 1..Len(g) : g[i].key = k

\* file_group[time_string] = [file]: the earlier members of the group are lost
Put_Overwrite(g, k, file) ==
    IF HasKey(g, k)
    THEN [i \in 1..Len(g) |-> IF g[i].key = k THEN [key |-> k, files |-> <<file>>] ELSE g[i]]
    ELSE Append(g, [key |-> k, files |-> <<file>>])

\* file_group[time_string] = file_group.get(time_string, []) + [file]
Put(g, k, file) ==
    IF HasKey(g, k)
    THEN [i \in 1..Len(g) |->
            IF g[i].key = k THEN [key |-> k, files |-> Append(g[i].files, file)] ELSE g[i]]
    ELSE Append(g, [key |-> k, files |-> <<file>>])

\* the lines print_group_info prints
GroupLines(e) ==
    <<[line |-> "key", text |-> e.key]>>
        \o [j \in 1..Len(e.files) |-> [line |-> "file", text |-> e.files[j]]]

print_group_info(g) == Concat([i \in 1..Len(g) |-> GroupLines(g[i])])

\* the destination without the folder of the group
RenameDst_NoFolder(pwd, time_string, file) == PathJoin(<<pwd, file>>)

\* the two paths of the os.rename call of do_move
RenameSrc(pwd, file) == PathJoin(<<pwd, file>>)
RenameDst(pwd, time_string, file) == PathJoin(<<pwd, time_string, file>>)

\* the folder of a group taken relative to the working directory
FolderPath_NoPwd(pwd, time_string) == time_string

\* the folder of a group: os.path.join(pwd, time_string)
FolderPath(pwd, time_string) == PathJoin(<<pwd, time_string>>)

\* do_move without the os.mkdir
NeedsMkdir_Never(f, pwd, time_string) == FALSE

\* does do_move create the folder of a group?
NeedsMkdir(f, pwd, time_string) == ~PathExists(f, FolderPath(pwd, time_string))

\* __main__ without the test of args.simulation
RunsMover_Always(sim) == TRUE

\* the guard of the move phase in __main__
RunsMover(sim) == ~sim

(* --------------------------- the state --------------------------------- *)

VARIABLES
    fs,            \* the file system: canonical path -> node
    date_format,   \* args.date_string
    simulation,    \* args.simulation
    pc,            \* where the run is: list, group, print, exists, mkdir,
                   \* rename, done, exit1 (exit(1)), crash (uncaught exception)
    phase,         \* "preview" (line 140) or "move" (line 143)
    file_list,     \* the list get_file_list returned
    idx,           \* group_by_date: index of the next file of file_list
    file_group,    \* the Grouping being built or used
    gi,            \* do_move: index of the current group
    fi,            \* do_move: index of the next member of the current group
    output,        \* the lines printed so far
    external,      \* steps the external actor has taken
    fs0,           \* history: the file system the run started on
    previewed,     \* history: the Grouping that was printed
    made,          \* history: canonical paths created by os.mkdir
    moved,         \* history: the renames done, [name, key, from, to]
    added,         \* history: names the external actor added between the scans
    failure        \* history: the call that raised, or "none"

vars == <<fs, date_format, simulation, pc, phase, file_list, idx,
          file_group, gi, fi, output, external, fs0, previewed, made, moved, added, failure>>

runVars == <<date_format, simulation, fs0>>

(* ------------------------ initial file systems ------------------------- *)

NoFiles == [p \in {} |-> DirNode]

\* what a direct child of the target directory starts as: a file of some
\* time, or a folder holding one file named a
EntryKinds == { "file" } \X Times \cup { <<"dirA", 0>> }

Nested == <<"a">>

TargetWith(S, k) ==
    LET top == { Append(Target, n) : n \in S }
        deep == { Append(Append(Target, n), Nested) : n \in { m \in S : k[m][1] = "dirA" } }
    IN  [p \in {Target} \cup top \cup deep |->
            IF p = Target THEN DirNode
            ELSE IF p \in deep THEN FileNode(CHOOSE t \in Times : \A u \in Times : t <= u)
            ELSE IF k[p[Len(p)]][1] = "file" THEN FileNode(k[p[Len(p)]][2])
            ELSE DirNode]

InitialFileSystems ==
    { NoFiles }
        \cup { (Target :> FileNode(t)) : t \in Times }
        \cup UNION { { TargetWith(S, k) : k \in [S -> EntryKinds] } :
                        S \in { X \in SUBSET Names : Cardinality(X) <= MaxEntries } }

Init ==
    /\ fs \in InitialFileSystems
    /\ fs0 = fs
    /\ date_format \in Patterns
    /\ simulation \in BOOLEAN
    /\ pc = "list"
    /\ phase = "preview"
    /\ file_list = <<>>
    /\ idx = 1
    /\ file_group = <<>>
    /\ gi = 1
    /\ fi = 1
    /\ output = <<>>
    /\ external = 0
    /\ previewed = <<>>
    /\ made = {}
    /\ moved = {}
    /\ added = {}
    /\ failure = "none"

(* ----------------------------- the run --------------------------------- *)

\* __main__ without the call of print_group_info
AfterGrouping_NoPreview(ph) == "exists"

\* where __main__ goes once group_by_date has returned
AfterGrouping(ph) == IF ph = "preview" THEN "print" ELSE "exists"

\* the mover handed the Grouping that was printed, without a second scan
MoveScan_Cached == "exists"

\* where __main__ goes after the preview when the mover runs: the second
\* get_file_list of line 143
MoveScan == "list"

\* the exception swallowed: do_move goes on with its outer loop
Raise_Swallowed == "exists"

\* where an uncaught exception leaves the run
Raise == "crash"

\* get_file_list(pwd): the two checks, then the listing in some order.
\* os.listdir raises NotADirectoryError for a path that passed both checks
\* and is no directory.
List ==
    /\ pc = "list"
    /\ LET chk == TargetCheck(fs, PwdArg) IN
       IF chk # "ok"
       THEN /\ output' = Append(output, [line |-> chk, text |-> PwdArg])
            /\ pc' = "exit1"
            /\ UNCHANGED <<file_list, idx, file_group, failure>>
       ELSE IF ~PathIsDir(fs, PwdArg)
       THEN /\ pc' = Raise
            /\ failure' = "listdir"
            /\ UNCHANGED <<output, file_list, idx, file_group>>
       ELSE /\ file_list' \in Orderings(get_file_list(fs, PwdArg))
            /\ idx' = 1
            /\ file_group' = <<>>
            /\ pc' = IF file_list' = <<>> THEN AfterGrouping(phase) ELSE "group"
            /\ UNCHANGED <<output, failure>>
    /\ UNCHANGED <<fs, phase, gi, fi, external, previewed, made, moved, added>>
    /\ UNCHANGED runVars

\* one iteration of the loop of group_by_date
Group ==
    /\ pc = "group"
    /\ LET file == file_list[idx]
           r == get_file_time_str(fs, PwdArg, file, date_format)
       IN  IF ~r.ok
           THEN /\ pc' = Raise
                /\ failure' = "getmtime"
                /\ UNCHANGED <<file_group, idx>>
           ELSE /\ file_group' = Put(file_group, r.value, file)
                /\ idx' = idx + 1
                /\ pc' = IF idx = Len(file_list) THEN AfterGrouping(phase) ELSE "group"
                /\ UNCHANGED failure
    /\ UNCHANGED <<fs, phase, file_list, gi, fi, output, external, previewed, made, moved, added>>
    /\ UNCHANGED runVars

\* print_group_info(...), then the test of args.simulation
Preview ==
    /\ pc = "print"
    /\ output' = output \o print_group_info(file_group)
    /\ previewed' = file_group
    /\ IF RunsMover(simulation)
       THEN pc' = MoveScan /\ phase' = "move"
       ELSE pc' = "done" /\ phase' = phase
    /\ UNCHANGED <<fs, file_list, idx, file_group, gi, fi, external, made, moved, added,
                   failure>>
    /\ UNCHANGED runVars

\* do_move: the head of the outer loop and the os.path.exists test
CheckFolder ==
    /\ pc = "exists"
    /\ IF gi > Len(file_group)
       THEN pc' = "done"
       ELSE pc' = IF NeedsMkdir(fs, PwdArg, file_group[gi].key) THEN "mkdir" ELSE "rename"
    /\ fi' = 1
    /\ UNCHANGED <<fs, phase, file_list, idx, file_group, gi, output, external,
                   previewed, made, moved, added, failure>>
    /\ UNCHANGED runVars

\* do_move: os.mkdir(os.path.join(pwd, time_string))
MakeFolder ==
    /\ pc = "mkdir"
    /\ LET r == mkdir(fs, FolderPath(PwdArg, file_group[gi].key)) IN
       IF r.ok
       THEN /\ fs' = r.fs
            /\ made' = made \cup {r.path}
            /\ pc' = "rename"
            /\ UNCHANGED failure
       ELSE /\ pc' = Raise
            /\ failure' = "mkdir"
            /\ UNCHANGED <<fs, made>>
    /\ UNCHANGED <<phase, file_list, idx, file_group, gi, fi, output, external,
                   previewed, moved, added>>
    /\ UNCHANGED runVars

\* do_move: one os.rename of the inner loop
MoveFile ==
    /\ pc = "rename"
    /\ \E platform \in Platforms :
       LET key == file_group[gi].key
           file == file_group[gi].files[fi]
           from == RenameSrc(PwdArg, file)
           r == rename(fs, from, RenameDst(PwdArg, key, file), platform)
       IN  IF r.ok
           THEN /\ fs' = r.fs
                /\ moved' = moved \cup
                      {[name |-> file, key |-> key, from |-> Resolve(fs, from).path, to |-> r.path]}
                /\ IF fi = Len(file_group[gi].files)
                   THEN pc' = "exists" /\ gi' = gi + 1 /\ fi' = 1
                   ELSE pc' = "rename" /\ gi' = gi /\ fi' = fi + 1
                /\ UNCHANGED failure
           ELSE /\ pc' = Raise
                /\ failure' = "rename"
                /\ UNCHANGED <<fs, moved, gi, fi>>
    /\ UNCHANGED <<phase, file_list, idx, file_group, output, external, previewed, made, added>>
    /\ UNCHANGED runVars

(* ------------------------ the external actor --------------------------- *)

Running == pc \notin { "done", "exit1", "crash" }

\* the preview scan is over and the move scan has not listed yet
BetweenScans == pc = "print" \/ (phase = "move" /\ pc = "list")

\* another process creates a file directly under the target directory,
\* between the preview scan and the move scan
ExternalAdd ==
    /\ BetweenScans
    /\ external < MaxExternal
    /\ IsDir(fs, Target)
    /\ \E n \in Names, t \in Times :
          /\ ~Exists(fs, Append(Target, n))
          /\ fs' = (Append(Target, n) :> FileNode(t)) @@ fs
          /\ added' = added \cup {n}
    /\ external' = external + 1
    /\ UNCHANGED <<pc, phase, file_list, idx, file_group, gi, fi, output, previewed, made,
                   moved, failure>>
    /\ UNCHANGED runVars

\* another process removes a file the move scan has listed, before the
\* run has renamed it
ExternalRemove ==
    /\ Running /\ phase = "move" /\ pc # "list"
    /\ external < MaxExternal
    /\ \E i \in 1..Len(file_list) : LET n == file_list[i] IN
          /\ \A m \in moved : m.name # n
          /\ IsFile(fs, Append(Target, n))
          /\ fs' = [p \in DOMAIN fs \ {Append(Target, n)} |-> fs[p]]
    /\ external' = external + 1
    /\ UNCHANGED <<pc, phase, file_list, idx, file_group, gi, fi, output, previewed, made,
                   moved, added, failure>>
    /\ UNCHANGED runVars

Program == List \/ Group \/ Preview \/ CheckFolder \/ MakeFolder \/ MoveFile

\* the run with the target directory to itself, as the script assumes
Next == Program

Spec == Init /\ [][Next]_vars

\* the run with the external actor at work
NextExternal == Program \/ ExternalAdd \/ ExternalRemove

SpecExternal == Init /\ [][NextExternal]_vars

(* ------------------------- vocabulary of the claims -------------------- *)

Range(q) == { q[i] : i \in 1..Len(q) }

\* the file names of a Grouping
Members(g) == UNION { Range(g[i].files) : i \in 1..Len(g) }

\* the regular files directly under the target directory
TopFiles(f) == { n \in Names : Exists(f, Append(Target, n)) /\ f[Append(Target, n)].kind = "file" }

\* the files the Directory Lister is to return: regular, not hidden, not
\* one of the three metadata names
Eligible(f) ==
    { n \in TopFiles(f) :
        /\ n[1] # DOT
        /\ n # <<"desktop.ini">> /\ n # <<"thumbs.db">> /\ n # <<DOT, "DS_Store">> }

\* the Group Key of a file that is directly under the target directory
KeyOf(f, n) == strftime(f[Append(Target, n)].mtime, date_format)

\* a key that is one ordinary path component
PlainKey(k) == k # <<>> /\ k # <<DOT>> /\ k # <<DOT, DOT>> /\ \A i \in 1..Len(k) : k[i] # SEP

\* the run was a move run and came to its end without an error
MoveRunDone == pc = "done" /\ ~simulation

(* ------------------------------- C1 ------------------------------------ *)

\* C1 as stated: after a non-simulation run completes successfully, every
\* file originally present in target_dir (every file the run lists) is at
\* target_dir/<GroupKey>/<name> and is no longer directly under target_dir.
C1_MovePlacement_AsStated ==
    MoveRunDone =>
        \A n \in Eligible(fs0) :
            /\ PathIsFile(fs, PathJoin(<<PwdArg, KeyOf(fs0, n), n>>))
            /\ ~IsFile(fs, Append(Target, n))

\* C1 amended: after a non-simulation run completes successfully, every
\* file the Directory Lister returns (regular, not hidden, not a metadata
\* name) is, with its modification time, at target_dir/<GroupKey>/<name>,
\* and, unless target_dir/<GroupKey> is target_dir itself, is no longer
\* directly under target_dir; hidden and metadata files stay in place.
C1_MovePlacement ==
    MoveRunDone =>
        /\ \A n \in Eligible(fs0) :
              LET to == Resolve(fs, PathJoin(<<PwdArg, KeyOf(fs0, n), n>>)) IN
              /\ to.ok /\ IsFile(fs, to.path)
              /\ fs[to.path].mtime = fs0[Append(Target, n)].mtime
              /\ Resolve(fs, PathJoin(<<PwdArg, KeyOf(fs0, n)>>)).path # Target
                    => ~IsFile(fs, Append(Target, n))
        /\ \A n \in TopFiles(fs0) \ Eligible(fs0) :
              IsFile(fs, Append(Target, n)) /\ fs[Append(Target, n)] = fs0[Append(Target, n)]

\* a move run is done that made two folders and moved a file into each
C1_Witness ==
    /\ MoveRunDone
    /\ Cardinality(made) = 2
    /\ \A d \in made : \E m \in moved : Parent(m.to) = d /\ IsFile(fs, m.to)

(* ------------------------------- C2 ------------------------------------ *)

\* the printed lines hold the Group Key and the name of every listed file
PrintsAll(f) ==
    \A n \in Eligible(f) :
        /\ \E i \in 1..Len(output) : output[i] = [line |-> "file", text |-> n]
        /\ \E i \in 1..Len(output) : output[i] = [line |-> "key", text |-> KeyOf(f, n)]

\* C2: a run with the simulation flag set creates no directory and renames
\* no file, so the file system stays as it was before the run, and once the
\* run is done the output holds every group key and every grouped file.
C2_SimulationNoOp ==
    simulation =>
        /\ fs = fs0
        /\ made = {} /\ moved = {}
        /\ pc \notin { "exists", "mkdir", "rename" }
        /\ (pc = "done" => PrintsAll(fs0))

\* a simulation run is done over two files of different months
C2_Witness ==
    /\ simulation /\ pc = "done"
    /\ Len(previewed) = 2
    /\ Cardinality(Eligible(fs)) = 2

(* ------------------------------- C3 ------------------------------------ *)

Places(g, n) ==
    { <<i, j>> \in (1..Len(g)) \X (1..Cardinality(Names)) :
        j <= Len(g[i].files) /\ g[i].files[j] = n }

\* group_by_date has returned file_group for file_list
Grouped == pc \in { "print", "exists", "mkdir", "rename", "done" }

\* C4: every name of the input list stands in exactly one Group of the
\* Grouping the Grouper returns, exactly once, and the Groups hold no name
\* that is not in the input list.
C4_GroupingCompleteness ==
    Grouped =>
        /\ \A n \in Range(file_list) : Cardinality(Places(file_group, n)) = 1
        /\ Members(file_group) = Range(file_list)
        /\ \A i \in 1..Len(file_group) : file_group[i].files # <<>>

\* a Grouping has been returned whose one Group holds two files of different
\* months
C4_Witness ==
    /\ pc = "print"
    /\ Len(file_list) = 2
    /\ Len(file_group) = 1
    /\ Len(file_group[1].files) = 2
    /\ \E n, m \in Eligible(fs) : fs[Append(Target, n)].mtime # fs[Append(Target, m)].mtime

(* ------------------------------- C5 ------------------------------------ *)

\* get_file_list has returned file_list and the directory is as it was listed
JustListed == pc \in { "group", "print" } \/ (pc = "exists" /\ gi = 1 /\ fi = 1 /\ made = {})

\* C5: the Directory Lister returns exactly the regular, non-hidden,
\* non-metadata files directly under the directory, each once, and never a
\* subdirectory.
C5_FilterCorrectness ==
    JustListed =>
        /\ Range(file_list) = Eligible(fs)
        /\ Len(file_list) = Cardinality(Eligible(fs))
        /\ \A n \in Range(file_list) : ~IsDir(fs, Append(Target, n))

\* a directory holding a metadata file and a regular file has been listed,
\* and only the regular file was returned
C5_Witness ==
    /\ pc = "group" /\ phase = "preview"
    /\ IsFile(fs, Append(Target, <<"desktop.ini">>))
    /\ Cardinality(TopFiles(fs)) = 2
    /\ Len(file_list) = 1

(* ------------------------------- C6 ------------------------------------ *)

\* the listing of the preview scan has been printed in full: the printed
\* lines are those of a Grouping of exactly the files the directory held
FullyPrinted ==
    /\ output = print_group_info(previewed)
    /\ Members(previewed) = Eligible(fs0)
    /\ PrintsAll(fs0)

\* C6: the full grouped listing is printed before the first directory is
\* created or the first file renamed, and it is printed in every run that
\* gets through grouping, with the simulation flag or without it.
C6_PreviewBeforeAction ==
    /\ (pc \in { "exists", "mkdir", "rename" } \/ made # {} \/ moved # {} \/ fs # fs0)
          => FullyPrinted
    /\ pc = "done" => FullyPrinted

\* the mover is about to create its first folder, two files having been previewed
C6_Witness ==
    /\ pc = "mkdir" /\ made = {} /\ moved = {}
    /\ Len(output) >= 3
    /\ Cardinality(Eligible(fs0)) = 2

(* ------------------------------- C7 ------------------------------------ *)

\* the paths that are not the target directory or below it
Outside(f) == { p \in DOMAIN f : p[1] # Target[1] }

\* every directory made is a direct child of the target directory, every
\* rename took a file from directly under the target directory into a direct
\* child of it, and nothing outside the target directory has changed
Footprint ==
    /\ \A d \in made : Parent(d) = Target
    /\ \A m \in moved : Parent(m.from) = Target /\ Parent(Parent(m.to)) = Target
    /\ Outside(fs) = Outside(fs0)
    /\ \A p \in DOMAIN fs0 : Len(p) > 2 => p \in DOMAIN fs /\ fs[p] = fs0[p]

\* C7 as stated: for every target directory and every format pattern, a run
\* creates directories only as direct children of the target directory and
\* renames files only from the target directory into those children, and
\* touches nothing in a nested subdirectory or outside the target directory.
C7_Footprint_AsStated == Footprint

\* C7 amended: the same, for every format pattern whose Group Keys are one
\* ordinary path component each (no separator, not "." and not ".."),
\* except that on a platform whose rename replaces an existing file, a
\* renamed file may replace a file of its name in the Group's folder.
C7_Footprint ==
    (\A t \in Times : PlainKey(strftime(t, date_format))) =>
        /\ \A d \in made : Parent(d) = Target
        /\ \A m \in moved : Parent(m.from) = Target /\ Parent(Parent(m.to)) = Target
        /\ Outside(fs) = Outside(fs0)
        /\ \A p \in DOMAIN fs0 : Len(p) > 2 =>
              /\ p \in DOMAIN fs
              /\ fs[p] = fs0[p] \/ \E m \in moved : m.to = p

\* a run with a plain pattern has made a folder and moved a file into it
C7_Witness ==
    /\ PlainKey(strftime(2024 * 12, date_format))
    /\ made # {}
    /\ \E m \in moved : Parent(m.to) \in made

(* ------------------------------- C8 ------------------------------------ *)

\* the folder of the group the mover is at
CurrentFolder == FolderPath(PwdArg, file_group[gi].key)

\* C8 as stated: whenever the mover comes to rename the members of a group,
\* target_dir/<GroupKey> is a directory, also when an entry of that name
\* that is not a directory was there already.
C8_FolderBeforeMove_AsStated == pc = "rename" => PathIsDir(fs, CurrentFolder)

\* C8 amended: the mover creates target_dir/<GroupKey> when no entry of that
\* name, of whatever kind, exists, and does so before it relocates a member:
\* when it comes to rename, an entry of that name exists; whenever a member
\* has been renamed, target_dir/<GroupKey> is a directory; and when the entry
\* is not a directory, the mover has created nothing for the group and the
\* rename of its first member fails.
C8_FolderBeforeMove ==
    /\ pc = "rename" => PathExists(fs, CurrentFolder)
    /\ \A m \in moved : PathIsDir(fs, FolderPath(PwdArg, m.key))
    /\ (pc = "rename" /\ ~PathIsDir(fs, CurrentFolder)) =>
          /\ fi = 1
          /\ Resolve(fs, CurrentFolder).path \notin made
          /\ \A pf \in Platforms :
                ~rename(fs, RenameSrc(PwdArg, file_group[gi].files[1]),
                        RenameDst(PwdArg, file_group[gi].key, file_group[gi].files[1]), pf).ok

\* the mover has created the folder of a group and comes to rename its
\* first member
C8_Witness ==
    /\ pc = "rename" /\ fi = 1
    /\ Resolve(fs, CurrentFolder).path \in made
    /\ PathIsDir(fs, CurrentFolder)

(* ------------------------------- C9 ------------------------------------ *)

\* the names the mover has renamed
MovedNames == { m.name : m \in moved }

\* the members that come after place (gi, fi) in the mover's iteration order
Later(g) ==
    { g[i].files[j] : <<i, j>> \in
        { q \in (1..Len(g)) \X (1..Cardinality(Names)) :
            /\ q[2] <= Len(g[q[1]].files)
            /\ q[1] > gi \/ (q[1] = gi /\ q[2] > fi) } }

\* C9: when os.mkdir or os.rename fails in the move phase the run aborts at
\* that step: it is in its crashed state, every file renamed before is in
\* the place it was renamed to, every directory made is there, the failing
\* member and every member after it have not been renamed, and a member
\* that is gone was taken by the external actor, not by the run.
C9_PartialCompletion ==
    failure \in { "mkdir", "rename" } =>
        /\ pc = "crash" /\ phase = "move"
        /\ \A m \in moved : IsFile(fs, m.to)
        /\ \A d \in made : IsDir(fs, d)
        /\ MovedNames \cap (Later(file_group) \cup {file_group[gi].files[fi]}) = {}
        /\ MovedNames \cup Later(file_group) \cup {file_group[gi].files[fi]}
              = Range(file_list)
        /\ \A n \in Later(file_group) : IsFile(fs, Append(Target, n)) \/ external > 0

\* a rename has failed after the run had made a folder and moved a file
\* into it
C9_Witness ==
    /\ failure = "rename" /\ pc = "crash"
    /\ \E m \in moved : Parent(m.to) \in made /\ IsFile(fs, m.to)

(* ------------------------------- C10 ----------------------------------- *)

\* a name the directory lister would return
ListedName(n) == n[1] # DOT /\ n # <<"desktop.ini">>

\* C10: the move phase works on a Grouping built from a second listing: a
\* file that an external actor adds under an eligible name between the
\* preview scan and the move scan is not in the printed preview, and a move
\* run that comes to its end has renamed it into the folder of its Group
\* Key; no error is raised for the difference.
C10_TwoScanDivergence ==
    \A n \in added : ListedName(n) =>
        /\ n \notin Members(previewed)
        /\ \A i \in 1..Len(output) : output[i] # [line |-> "file", text |-> n]
        /\ MoveRunDone =>
              /\ failure = "none"
              /\ \E m \in moved :
                    /\ m.name = n
                    /\ m.from = Append(Target, n)
                    /\ m.to = Resolve(fs, RenameDst(PwdArg, m.key, n)).path
                    /\ IsFile(fs, m.to)

\* a move run is done in which a file was previewed and moved and a second
\* file, added between the scans, was moved without having been previewed
C10_Witness ==
    /\ MoveRunDone
    /\ Members(previewed) # {}
    /\ \E n \in added : n \in MovedNames /\ n \notin Members(previewed)
                        /\ ~IsFile(fs, Append(Target, n))

====
